---- MODULE Spec2Model ----
(***************************************************************************)
(* DataAnalyzer (src/data_analyzer.py): one instance and the caller that   *)
(* drives it.  Python variables hold references, so the model keeps a heap *)
(* of list objects (lists) and of dict objects (dicts); self.data, the     *)
(* caller's own list variable, self._stats and the caller's stats variable *)
(* are references into those heaps.                                        *)
(*                                                                         *)
(* Numbers: a Python int n is [t |-> "int", n |-> n, d |-> 1]; the float   *)
(* produced by a / b is the reduced fraction [t |-> "float", n, d].  For   *)
(* the small operands of this model distinct fractions are distinct        *)
(* floats, and a / b is a deterministic function of a and b.               *)
(***************************************************************************)
EXTENDS Integers, Sequences, FiniteSets, TLC

VARIABLES
    lists,        \* heap of list objects: object id -> sequence of ints
    dicts,        \* heap of dict objects: object id -> (key -> number)
    data,         \* self.data: reference to a list object
    name,         \* self.name
    processed,    \* self.processed
    _stats,       \* self._stats: None or reference to a dict object
    caller_data,  \* the caller's variable holding the list it passed in
    caller_stats, \* the caller's variable holding the last get_statistics() result
    call,         \* the operation performed by the last step
    ret,          \* what that operation returned
    invalidated,  \* history: add_data has succeeded and process has not
                  \* succeeded since
    repeated      \* history: the last two steps were both successful process calls

vars == <<lists, dicts, data, name, processed, _stats, caller_data,
          caller_stats, call, ret, invalidated, repeated>>

---------------------------------------------------------------------------
(* Bounds *)

MaxLen == 3
MaxNew == 2

Values == {1, 2}

sample_data == <<12, 15, 23, 45, 67, 89, 21, 34>>

Names == {"Default Dataset"}

None == "None"
DictIds == {"d1", "d2"}
Keys == {"count", "sum", "mean", "min", "max", "median"}

RECURSIVE SeqsUpTo(_)
SeqsUpTo(n) ==
    IF n = 0 THEN {<< >>}
    ELSE LET S == SeqsUpTo(n - 1)
         IN  S \cup {Append(s, v) : s \in {t \in S : Len(t) = n - 1}, v \in Values}

---------------------------------------------------------------------------
(* Python numbers *)

RECURSIVE GCD(_, _)
GCD(a, b) == IF b = 0 THEN a ELSE GCD(b, a % b)

PyInt(n) == [t |-> "int", n |-> n, d |-> 1]

\* a / b for ints a >= 0, b > 0: always a float
TrueDiv(a, b) ==
    LET g == GCD(a, b) IN [t |-> "float", n |-> a \div g, d |-> b \div g]

---------------------------------------------------------------------------
(* Builtins used by process() *)

RECURSIVE sum(_)
sum(s) == IF s = << >> THEN 0 ELSE Head(s) + sum(Tail(s))

min(s) == CHOOSE m \in {s[i] : i \in 1..Len(s)} : \A i \in 1..Len(s) : m <= s[i]

max(s) == CHOOSE m \in {s[i] : i \in 1..Len(s)} : \A i \in 1..Len(s) : m >= s[i]

RECURSIVE Insert(_, _)
Insert(s, v) ==
    IF s = << >> THEN <<v>>
    ELSE IF v < Head(s) THEN <<v>> \o s
    ELSE <<Head(s)>> \o Insert(Tail(s), v)

\* sorted(): a new ascending list, the argument is not touched
RECURSIVE sorted(_)
sorted(s) == IF s = << >> THEN << >> ELSE Insert(sorted(SubSeq(s, 1, Len(s) - 1)), s[Len(s)])

\* variant of median: the even case is forgotten, the upper middle is returned
median_upper(d) ==
    LET sorted_data == sorted(d)
        n == Len(sorted_data)
    IN  PyInt(sorted_data[(n \div 2) + 1])

\* lines 41-46; sorted_data is 0-indexed in the source, 1-indexed here
median(d) ==
    LET sorted_data == sorted(d)
        n == Len(sorted_data)
    IN  IF n % 2 = 0
        THEN TrueDiv(sorted_data[(n \div 2 - 1) + 1] + sorted_data[(n \div 2) + 1], 2)
        ELSE PyInt(sorted_data[(n \div 2) + 1])

\* lines 32-46: the dict process() builds from a non-empty list d
Statistics(d) ==
    [k \in Keys |->
        CASE k = "count"  -> PyInt(Len(d))
          [] k = "sum"    -> PyInt(sum(d))
          [] k = "mean"   -> TrueDiv(sum(d), Len(d))
          [] k = "min"    -> PyInt(min(d))
          [] k = "max"    -> PyInt(max(d))
          [] k = "median" -> median(d)]

---------------------------------------------------------------------------
(* Heap helpers *)

\* the content of self.data
values == lists[data]

\* the content of the dict self._stats refers to
snapshot == IF _stats = None THEN << >> ELSE dicts[_stats]

\* a dict object nobody refers to is freed (reference counting)
Collect(h, refs) == [i \in (DOMAIN h) \cap refs |-> h[i]]

\* the object process() allocates: any id the caller's variable does not hold
\* (the dict self._stats referred to is freed by the assignment unless the
\* caller holds it too)
NewDictId(held) == CHOOSE i \in DictIds : i # held

---------------------------------------------------------------------------
(* Return values *)

RetBool(b) == [kind |-> "bool", b |-> b, ref |-> None, str |-> <<"", 0, FALSE>>]
RetRef(r)  == [kind |-> "ref", b |-> FALSE, ref |-> r, str |-> <<"", 0, FALSE>>]
RetStr(s)  == [kind |-> "str", b |-> FALSE, ref |-> None, str |-> s]

\* the last step was operation op and it returned True
Succeeded(op) == call = op /\ ret = RetBool(TRUE)

---------------------------------------------------------------------------
(* Arguments a caller can hand to add_data *)

ListArg(s) == [type |-> "list", val |-> s]
Arguments ==
    {ListArg(s) : s \in SeqsUpTo(MaxNew)}
        \cup {[type |-> "int", val |-> <<42>>],
              [type |-> "tuple", val |-> <<1, 2>>],
              [type |-> "NoneType", val |-> << >>]}

---------------------------------------------------------------------------
(* DataAnalyzer *)

\* lines 12-23: the fields after DataAnalyzer(d, nm); d is a reference
__init__(d, nm) == [data |-> d, name |-> nm, processed |-> FALSE, _stats |-> None]

Init ==
    /\ \E s \in SeqsUpTo(MaxLen) \cup {<<1, 2, 9>>, sample_data} :
          lists = [i \in {"l0"} |-> s]
    /\ dicts = << >>
    /\ caller_data = "l0"
    /\ \E nm \in Names :
          LET self == __init__(caller_data, nm)
          IN  /\ data = self.data
              /\ name = self.name
              /\ processed = self.processed
              /\ _stats = self._stats
    /\ caller_stats = None
    /\ call = "__init__"
    /\ ret = RetRef(None)
    /\ invalidated = FALSE
    /\ repeated = FALSE

\* variant of process: the flag is set before the empty-data check
process_flag_first ==
    /\ call' = "process"
    /\ processed' = TRUE
    /\ IF lists[data] = << >>
       THEN /\ ret' = RetBool(FALSE)
            /\ repeated' = FALSE
            /\ UNCHANGED <<lists, dicts, _stats, invalidated>>
       ELSE LET new == NewDictId(caller_stats)
            IN  /\ _stats' = new
                /\ dicts' = Collect([i \in DOMAIN dicts \cup {new} |->
                                        IF i = new THEN Statistics(lists[data])
                                        ELSE dicts[i]],
                                    {new, caller_stats})
                /\ ret' = RetBool(TRUE)
                /\ invalidated' = FALSE
                /\ repeated' = Succeeded("process")
                /\ UNCHANGED lists
    /\ UNCHANGED <<data, name, caller_data, caller_stats>>

\* variant of process: the empty-data branch also clears the flag
process_resets_on_empty ==
    /\ call' = "process"
    /\ IF lists[data] = << >>
       THEN /\ ret' = RetBool(FALSE)
            /\ processed' = FALSE
            /\ repeated' = FALSE
            /\ UNCHANGED <<lists, dicts, _stats, invalidated>>
       ELSE LET new == NewDictId(caller_stats)
            IN  /\ _stats' = new
                /\ dicts' = Collect([i \in DOMAIN dicts \cup {new} |->
                                        IF i = new THEN Statistics(lists[data])
                                        ELSE dicts[i]],
                                    {new, caller_stats})
                /\ processed' = TRUE
                /\ ret' = RetBool(TRUE)
                /\ invalidated' = FALSE
                /\ repeated' = Succeeded("process")
                /\ UNCHANGED lists
    /\ UNCHANGED <<data, name, caller_data, caller_stats>>

\* variant of process: the median is taken by sorting self.data in place and
\* popping its upper half, so self.data loses elements
process_destructive ==
    /\ call' = "process"
    /\ IF lists[data] = << >>
       THEN /\ ret' = RetBool(FALSE)
            /\ repeated' = FALSE
            /\ UNCHANGED <<lists, dicts, processed, _stats, invalidated>>
       ELSE LET new == NewDictId(caller_stats)
                d == lists[data]
            IN  /\ _stats' = new
                /\ dicts' = Collect([i \in DOMAIN dicts \cup {new} |->
                                        IF i = new THEN Statistics(d)
                                        ELSE dicts[i]],
                                    {new, caller_stats})
                /\ processed' = TRUE
                /\ ret' = RetBool(TRUE)
                /\ invalidated' = FALSE
                /\ repeated' = Succeeded("process")
                /\ lists' = [lists EXCEPT ![data] = SubSeq(sorted(d), 1, Len(d) \div 2 + 1)]
    /\ UNCHANGED <<data, name, caller_data, caller_stats>>

\* lines 25-49
process ==
    /\ call' = "process"
    /\ IF lists[data] = << >>
       THEN /\ ret' = RetBool(FALSE)
            /\ repeated' = FALSE
            /\ UNCHANGED <<lists, dicts, processed, _stats, invalidated>>
       ELSE LET new == NewDictId(caller_stats)
            IN  /\ _stats' = new
                /\ dicts' = Collect([i \in DOMAIN dicts \cup {new} |->
                                        IF i = new THEN Statistics(lists[data])
                                        ELSE dicts[i]],
                                    {new, caller_stats})
                /\ processed' = TRUE
                /\ ret' = RetBool(TRUE)
                /\ invalidated' = FALSE
                /\ repeated' = Succeeded("process")
                /\ UNCHANGED lists
    /\ UNCHANGED <<data, name, caller_data, caller_stats>>

\* lines 51-61; the caller keeps the result (stats = analyzer.get_statistics())
get_statistics ==
    /\ call' = "get_statistics"
    /\ ret' = IF ~processed THEN RetRef(None) ELSE RetRef(_stats)
    /\ caller_stats' = ret'.ref
    /\ dicts' = Collect(dicts, {_stats, caller_stats'})
    /\ UNCHANGED <<lists, data, name, processed, _stats, caller_data, invalidated>>
    /\ repeated' = FALSE

\* variant of add_data: the flag is reset only when something was appended
add_data_arg_skips_empty(new_data) ==
    /\ call' = "add_data"
    /\ IF new_data.type # "list"
       THEN /\ ret' = RetBool(FALSE)
            /\ UNCHANGED <<lists, processed, invalidated>>
       ELSE /\ Len(lists[data]) + Len(new_data.val) <= MaxLen
            /\ lists' = [lists EXCEPT ![data] = @ \o new_data.val]
            /\ processed' = IF new_data.val = << >> THEN processed ELSE FALSE
            /\ ret' = RetBool(TRUE)
            /\ invalidated' = TRUE
    /\ repeated' = FALSE
    /\ UNCHANGED <<dicts, data, name, _stats, caller_data, caller_stats>>

\* variant of add_data: the flag is reset before the type check
add_data_arg_flag_first(new_data) ==
    /\ call' = "add_data"
    /\ processed' = FALSE
    /\ IF new_data.type # "list"
       THEN /\ ret' = RetBool(FALSE)
            /\ UNCHANGED <<lists, invalidated>>
       ELSE /\ Len(lists[data]) + Len(new_data.val) <= MaxLen
            /\ lists' = [lists EXCEPT ![data] = @ \o new_data.val]
            /\ ret' = RetBool(TRUE)
            /\ invalidated' = TRUE
    /\ repeated' = FALSE
    /\ UNCHANGED <<dicts, data, name, _stats, caller_data, caller_stats>>

\* lines 63-79; the argument is a fresh object or the caller's own list
add_data_arg(new_data) ==
    /\ call' = "add_data"
    /\ IF new_data.type # "list"
       THEN /\ ret' = RetBool(FALSE)
            /\ UNCHANGED <<lists, processed, invalidated>>
       ELSE /\ Len(lists[data]) + Len(new_data.val) <= MaxLen
            /\ lists' = [lists EXCEPT ![data] = @ \o new_data.val]
            /\ processed' = FALSE
            /\ ret' = RetBool(TRUE)
            /\ invalidated' = TRUE
    /\ repeated' = FALSE
    /\ UNCHANGED <<dicts, data, name, _stats, caller_data, caller_stats>>

add_data ==
    \E new_data \in Arguments \cup {ListArg(lists[caller_data])} :
        add_data_arg(new_data)

\* lines 81-83
__str__ ==
    /\ call' = "__str__"
    /\ ret' = RetStr(<<name, Len(lists[data]), processed>>)
    /\ UNCHANGED <<lists, dicts, data, name, processed, _stats, caller_data,
                   caller_stats, invalidated>>
    /\ repeated' = FALSE

---------------------------------------------------------------------------
(* The caller acting on the objects it holds *)

\* the caller appends to the list it passed to the constructor
caller_append ==
    /\ Len(lists[caller_data]) < MaxLen
    /\ \E v \in Values : lists' = [lists EXCEPT ![caller_data] = Append(@, v)]
    /\ call' = "caller_append"
    /\ ret' = RetRef(None)
    /\ UNCHANGED <<dicts, data, name, processed, _stats, caller_data,
                   caller_stats, invalidated>>
    /\ repeated' = FALSE

\* the caller empties that list
caller_clear ==
    /\ lists[caller_data] # << >>
    /\ lists' = [lists EXCEPT ![caller_data] = << >>]
    /\ call' = "caller_clear"
    /\ ret' = RetRef(None)
    /\ UNCHANGED <<dicts, data, name, processed, _stats, caller_data,
                   caller_stats, invalidated>>
    /\ repeated' = FALSE

\* the caller overwrites a field of the dict get_statistics() gave it
caller_setitem ==
    /\ caller_stats # None
    /\ dicts' = [dicts EXCEPT ![caller_stats] =
                    [k \in DOMAIN @ \cup {"median"} |-> IF k = "median" THEN PyInt(0) ELSE @[k]]]
    /\ dicts' # dicts
    /\ call' = "caller_setitem"
    /\ ret' = RetRef(None)
    /\ UNCHANGED <<lists, data, name, processed, _stats, caller_data,
                   caller_stats, invalidated>>
    /\ repeated' = FALSE

\* the caller removes a field of that dict
caller_delitem ==
    /\ caller_stats # None
    /\ "median" \in DOMAIN dicts[caller_stats]
    /\ dicts' = [dicts EXCEPT ![caller_stats] =
                    [k \in DOMAIN @ \ {"median"} |-> @[k]]]
    /\ call' = "caller_delitem"
    /\ ret' = RetRef(None)
    /\ UNCHANGED <<lists, data, name, processed, _stats, caller_data,
                   caller_stats, invalidated>>
    /\ repeated' = FALSE

Next ==
    \/ process
    \/ get_statistics
    \/ add_data
    \/ __str__
    \/ caller_append
    \/ caller_clear
    \/ caller_setitem
    \/ caller_delitem

Spec == Init /\ [][Next]_vars

---------------------------------------------------------------------------
(* Properties *)

\* C1: once add_data has succeeded (with any list, the empty one included)
\* processed is false, and every get_statistics issued before the next
\* successful process returns None.
C1_Invalidation ==
    [][ /\ (Succeeded("add_data")' => ~processed')
        /\ (invalidated /\ call' = "get_statistics" => ret' = RetRef(None)) ]_vars

\* a process succeeded, then an add_data, and get_statistics answered None
C1_Witness ==
    /\ invalidated
    /\ _stats # None
    /\ call = "get_statistics"
    /\ ret = RetRef(None)

\* C2 as stated: the stored snapshot is present if and only if processed is true.
C2_Original == (_stats # None) <=> processed

\* C2 amended: whenever processed is true the stored snapshot is present; a
\* successful add_data resets only the flag and keeps the stored snapshot.
C2_Amended ==
    [][ /\ (processed' => _stats' # None)
        /\ (Succeeded("add_data")' => _stats' = _stats /\ snapshot' = snapshot) ]_vars

\* add_data succeeded on a computed instance: flag reset, snapshot still stored
C2_Witness ==
    /\ Succeeded("add_data")
    /\ ~processed
    /\ _stats # None
    /\ snapshot["count"] # PyInt(Len(values))

\* C3: whenever processed is true the stored snapshot is the statistics of
\* the current values.
C3_Freshness ==
    processed => values # << >> /\ snapshot = Statistics(values)

\* C4: a caller changing the record get_statistics returned does not change
\* the snapshot the instance has cached.
C4_Original ==
    [][ call' \in {"caller_setitem", "caller_delitem"} => snapshot' = snapshot ]_vars

\* C5: process on empty values returns False, and afterwards processed is
\* false, no snapshot is stored and values is unchanged.
C5_Original ==
    [][ call' = "process" /\ values = << >> =>
            /\ ret' = RetBool(FALSE)
            /\ ~processed'
            /\ _stats' = None
            /\ lists' = lists ]_vars

\* arguments that are not sequences
NonSequences == {a \in Arguments : a.type \in {"int", "NoneType"}}

\* C6: add_data with a non-sequence argument returns False, and a failed
\* add_data leaves values, processed and the stored snapshot unchanged.
C6_InvalidInput ==
    [][ /\ \A a \in NonSequences : add_data_arg(a) => ret' = RetBool(FALSE)
        /\ (call' = "add_data" /\ ret' = RetBool(FALSE) =>
                /\ lists' = lists
                /\ processed' = processed
                /\ _stats' = _stats
                /\ dicts' = dicts) ]_vars

\* add_data failed on a computed instance, whose snapshot is still available
C6_Witness ==
    /\ call = "add_data"
    /\ ret = RetBool(FALSE)
    /\ processed
    /\ snapshot = Statistics(values)

\* C7: a process that directly follows a successful process succeeds, leaves
\* processed true and stores a snapshot equal in every field to the first.
C7_Idempotence ==
    [][ Succeeded("process") /\ call' = "process" =>
            /\ ret' = RetBool(TRUE)
            /\ processed'
            /\ \A k \in Keys : snapshot'[k] = snapshot[k] ]_vars

\* two successful process calls in a row
C7_Witness == repeated /\ processed

\* number of elements of d below v, and not above v
Below(d, v) == Cardinality({i \in 1..Len(d) : d[i] < v})
NotAbove(d, v) == Cardinality({i \in 1..Len(d) : d[i] <= v})

\* v stands at 0-indexed position k of d in ascending order
AtSortedPosition(d, k, v) == Below(d, v) <= k /\ k < NotAbove(d, v)

\* m is the median of d as the specification defines it
IsMedian(d, m) ==
    LET n == Len(d)
        elems == {d[i] : i \in 1..n}
    IN  IF n % 2 = 1
        THEN \E v \in elems : AtSortedPosition(d, n \div 2, v) /\ m = PyInt(v)
        ELSE \E a, b \in elems :
                /\ AtSortedPosition(d, n \div 2 - 1, a)
                /\ AtSortedPosition(d, n \div 2, b)
                /\ m.t = "float"
                /\ 2 * m.n = (a + b) * m.d

\* C8: a successful process stores as median the middle element of the
\* ascending order of values (odd length) or the average of the two middle
\* elements (even length), [1,2,9] giving 2 and the sample data 28.5, and it
\* leaves values as it was.
C8_Median ==
    [][ Succeeded("process")' =>
            /\ lists' = lists
            /\ IsMedian(values, snapshot'["median"])
            /\ (values = <<1, 2, 9>> => snapshot'["median"] = PyInt(2))
            /\ (values = sample_data =>
                    snapshot'["median"] = [t |-> "float", n |-> 57, d |-> 2]) ]_vars

\* the sample data has been processed
C8_Witness ==
    /\ Succeeded("process")
    /\ values = sample_data
    /\ snapshot["median"] = [t |-> "float", n |-> 57, d |-> 2]
    /\ snapshot["count"] = PyInt(8)

\* C9: processed is false after construction, becomes true only in a
\* successful process, becomes false only in a successful add_data, and is
\* left alone by get_statistics, __str__, a failed process and a failed add_data.
C9_Flag ==
    [][ /\ (call = "__init__" => ~processed)
        /\ (~processed /\ processed' => Succeeded("process")')
        /\ (processed /\ ~processed' => Succeeded("add_data")')
        /\ (call' \in {"get_statistics", "__str__"} => processed' = processed)
        /\ (call' \in {"process", "add_data"} /\ ret' = RetBool(FALSE) =>
                processed' = processed) ]_vars

\* a process failed on a computed instance and the flag is still true
C9_Witness ==
    /\ call = "process"
    /\ ret = RetBool(FALSE)
    /\ processed

\* C10: values changes only in a successful add_data, and add_data does not
\* change the list the caller holds.
C10_Original ==
    [][ /\ (values' # values => Succeeded("add_data")')
        /\ (call' = "add_data" => lists'[caller_data] = lists[caller_data]) ]_vars

====
